---- MODULE Spec2Model ----
(***************************************************************************)
(* A model of js-midi-synth (src/midiSynth.js): the page script that       *)
(* subscribes to Web MIDI input ports and drives a Web Audio graph.        *)
(*                                                                         *)
(* The script runs on the browser's event loop: every callback             *)
(* (DOMContentLoaded, the continuation of setupMidi after its await, a     *)
(* click on the start button, a statechange notification, a midimessage)  *)
(* runs to completion before the next one starts, so each callback is one  *)
(* action.  The script is a classic (non-strict) script.                   *)
(*                                                                         *)
(* A device identity is the port's name (midiPorts is keyed by             *)
(* input.name); the model has one port object per name.                    *)
(***************************************************************************)
EXTENDS Integers, Sequences, FiniteSets, TLC

(* ---------------------------------------------------------------- bounds *)

\* Oscillators the audio engine hands out before the environment stops
\* sending NoteOn messages.
MaxOsc == 2

(* ------------------------------------------------------ program constants *)

\* The value of a `let` that was never assigned, of a missing object key.
Undefined == 0

\* The input ports the environment presents, by name.
InputPorts == {1, 2}

\* An output port, to exercise the port.type test of onStateChange.
OutputPort == 3

Ports == {OutputPort} \cup InputPorts

PortType(port) == IF port \in InputPorts THEN "input" ELSE "output"

PortStates == {"connected", "disconnected"}

\* The notes the environment plays.
Notes == {7, 60}

\* The messages <<statusByte, data1, data2>> the environment sends: NoteOn
\* on the first channel and, with velocity 0, on the last; NoteOff on the
\* channel of the note's NoteOn (note 7, status 128) and on another one
\* (note 7, status 143; note 60, status 128); ControlChange 7 (volume) with
\* a middle and the greatest value, ControlChange 1 (modulation),
\* ControlChange on the second channel, PitchBend, and a status byte the
\* script does not know.
Messages ==
    {<<144, 7, 64>>, <<159, 60, 0>>,
     <<128, 7, 0>>, <<143, 7, 0>>, <<128, 60, 64>>,
     <<176, 7, 64>>, <<176, 7, 127>>, <<176, 1, 64>>, <<177, 7, 64>>,
     <<224, 0, 64>>, <<224, 7, 0>>,
     <<200, 60, 64>>}

\* Every value a data byte can have.
DataBytes == 0..127

\* Every value a status byte can have.
StatusBytes == 0..255

\* The messages of an environment that sends every status byte, and the
\* controllers 1 (modulation), 7 (volume) and 60 on status 176.
DecoderMessages ==
    {<<statusByte, 7, 64>> : statusByte \in StatusBytes}
        \cup {<<176, 1, 64>>, <<176, 60, 64>>}

\* The messages of an environment that plays one note with every velocity.
MapperMessages == {<<144, 7, velocity>> : velocity \in DataBytes}

\* A rational number n/d is the pair <<n, d>>.
Rat(n, d) == <<n, d>>

RatEq(a, b) == a[1] * b[2] = b[1] * a[2]

\* a < b, for denominators greater than 0.
RatLess(a, b) == IF a[2] = b[2] THEN a[1] < b[1] ELSE a[1] * b[2] < b[1] * a[2]

NoValue == Rat(0, 0)

\* No message was handled.
NoMessage == <<>>

\* One call made on a collaborator (audio engine, port, DOM) by a handler.
Call(op, target, arg) == [op |-> op, target |-> target, arg |-> arg]

(* ------------------------------------------------------------- variables *)

VARIABLES
    hasMIDI,          \* navigator.requestMIDIAccess is defined
    hasACtx,          \* window.AudioContext || window.webkitAudioContext is defined
    pc,               \* where the page's startup is
    startBtn,         \* the start button: disabled attribute, text, click listener
    audioContext,     \* Undefined, or the number of the AudioContext created
    masterGainNode,   \* the master gain node: created, gain.value
    masterFilter,     \* the master filter: created, frequency.value
    midiPorts,        \* the Device Registry: port name -> port, or Undefined
    pressedKeys,      \* the Voice Registry: note -> oscillator, or Undefined
    accessListener,   \* onStateChange is attached to the MIDIAccess object
    stateListener,    \* port -> onStateChange is attached to the port
    msgListener,      \* port -> onMidiMessage is attached to the port
    oscs,             \* the oscillators the audio engine created, in order
    status,           \* the status log: how often each one-off line was logged
    uncaught,         \* exceptions that escaped a handler
    calls,            \* the collaborator calls the last handler made
    last,             \* the last event the environment raised
    noteHist,         \* note -> the last NoteOn/NoteOff handled for it:
                      \*   "none", "onIdle" (a NoteOn handled while Idle),
                      \*   "on" (a NoteOn handled while Running), "off"
    portHist,         \* port -> "never", or the last change of its record
                      \*   in the Device Registry: "enabled", "disabled"
    msg,              \* <<statusByte, data1, data2>> when the last event was a
                      \*   message onMidiMessage handled, NoMessage otherwise
    voiceOrigin,      \* note -> the port whose NoteOn created the last voice of
                      \*   the note, Undefined before any
    lastNotice,       \* input port -> TRUE when the last the script was told
                      \*   about the port is its presence (it was among
                      \*   access.inputs at the grant, or a "connected" was
                      \*   heard since), FALSE when it was told nothing or the
                      \*   last statechange it heard was "disconnected"
    idleVolume        \* a ControlChange 7 on status 176 was handled while Idle,
                      \*   and no message was handled while Running since

prog == <<startBtn, audioContext, masterGainNode, masterFilter, midiPorts,
          pressedKeys, accessListener, stateListener, msgListener, oscs,
          status, uncaught, calls>>

vars == <<hasMIDI, hasACtx, pc, prog, last, noteHist, portHist, msg,
          voiceOrigin, lastNotice, idleVolume>>

\* The program's state as one record, with the call trace of a new handler.
Prog ==
    [startBtn |-> startBtn, audioContext |-> audioContext,
     masterGainNode |-> masterGainNode, masterFilter |-> masterFilter,
     midiPorts |-> midiPorts, pressedKeys |-> pressedKeys,
     accessListener |-> accessListener, stateListener |-> stateListener,
     msgListener |-> msgListener, oscs |-> oscs, status |-> status,
     uncaught |-> uncaught, calls |-> <<>>]

Becomes(s) ==
    /\ startBtn' = s.startBtn
    /\ audioContext' = s.audioContext
    /\ masterGainNode' = s.masterGainNode
    /\ masterFilter' = s.masterFilter
    /\ midiPorts' = s.midiPorts
    /\ pressedKeys' = s.pressedKeys
    /\ accessListener' = s.accessListener
    /\ stateListener' = s.stateListener
    /\ msgListener' = s.msgListener
    /\ oscs' = s.oscs
    /\ status' = s.status
    /\ uncaught' = s.uncaught
    /\ calls' = s.calls

\* An event of the environment: its kind, the port it is about, whether a
\* handler of the script was attached to hear it, and, for a NoteOn or a
\* NoteOff that was heard, its note.
Event(kind, port, heard, note) ==
    [kind |-> kind, port |-> port, heard |-> heard, note |-> note]

(* ------------------------------------------------------------ UI helpers *)

\* The lines of the status log that are logged at most once per page load.
OneOffLines == {"No MIDI support available.", "Error setting up MIDI"}

logStatus(s, message) ==
    [s EXCEPT !.status = IF message \in OneOffLines
                         THEN [@ EXCEPT ![message] = @ + 1]
                         ELSE @,
              !.calls = Append(@, Call("logStatus", Undefined, NoValue))]

\* The argument of disableStartBtn: an options object, or nothing at all.
NoArgument == [defined |-> FALSE, btnText |-> ""]

Options(btnText) == [defined |-> TRUE, btnText |-> btnText]

\* function disableStartBtn({ btnText }): destructuring a missing argument
\* throws a TypeError before the body runs.
disableStartBtn(s, arg) ==
    IF ~arg.defined
    THEN [s EXCEPT !.uncaught = @ \cup {"TypeError"}]
    ELSE [s EXCEPT !.startBtn.disabled = TRUE,
                   !.startBtn.text = IF arg.btnText # "" THEN arg.btnText ELSE @,
                   !.calls = Append(@, Call("startBtn.setAttribute", Undefined, NoValue))]

printMessageInfo(s) ==
    [s EXCEPT !.calls = Append(@, Call("messages.innerText", Undefined, NoValue))]

(* --------------------------------------------------------------- WebAudio *)

\* BiquadFilterNode defaults (Web Audio): frequency.value 350, Q.value 1.
DefaultFilterFrequency == 350

DefaultFilterQ == 1

InitialMasterGain == Rat(1, 2)

\* 2^((note - 69) / 12) * 440, kept as the exponent (note - 69) / 12.
midiNoteToFreq(note) == Rat(note - 69, 12)

\* ln(10) and 292.4283068102438 in millionths.
Ln10Micro == 2302585

GainDivisorMicro == 292428307

\* A midiVelocityToGain that stops growing at velocity 100.
midiVelocityToGainSaturating(velocity) ==
    Rat((IF velocity > 100 THEN 100 ELSE velocity) * Ln10Micro, GainDivisorMicro)

\* Math.log(Math.pow(10, velocity)) / 292.4283068102438
midiVelocityToGain(velocity) == Rat(velocity * Ln10Micro, GainDivisorMicro)

\* filter.frequency = 1000 and filter.Q = 8 assign to read-only AudioParam
\* attributes: in a classic script the assignments are ignored and the
\* filter keeps the defaults of the node.
createFilter(s) ==
    [s EXCEPT !.masterFilter = [created |-> TRUE, type |-> "lowpass",
                                frequency |-> Rat(DefaultFilterFrequency, 1),
                                Q |-> Rat(DefaultFilterQ, 1)],
              !.calls = Append(@, Call("createBiquadFilter", Undefined, NoValue))]

\* A createAudio that leaves the master gain node at the gain a new GainNode
\* has, 1.
createAudioDefaultGain(s, ACtx) ==
    LET s1 == logStatus(s, "Starting AudioContext...")
    IN  IF ~ACtx
        THEN logStatus(s1, "No constructor for AudioContext found.")
        ELSE LET s2 == [s1 EXCEPT !.audioContext = @ + 1,
                                  !.masterGainNode = [created |-> TRUE,
                                                      gain |-> Rat(1, 1)],
                                  !.calls = Append(Append(@,
                                      Call("new AudioContext", s1.audioContext + 1, NoValue)),
                                      Call("createGain", Undefined, Rat(1, 1)))]
                 s3 == createFilter(s2)
             IN  [s3 EXCEPT !.calls = Append(Append(@,
                                 Call("masterGainNode.connect", Undefined, NoValue)),
                                 Call("masterFilter.connect", Undefined, NoValue))]

createAudio(s, ACtx) ==
    LET s1 == logStatus(s, "Starting AudioContext...")
    IN  IF ~ACtx
        THEN logStatus(s1, "No constructor for AudioContext found.")
        ELSE LET s2 == [s1 EXCEPT !.audioContext = @ + 1,
                                  !.masterGainNode = [created |-> TRUE,
                                                      gain |-> InitialMasterGain],
                                  !.calls = Append(Append(@,
                                      Call("new AudioContext", s1.audioContext + 1, NoValue)),
                                      Call("createGain", Undefined, InitialMasterGain))]
                 s3 == createFilter(s2)
             IN  [s3 EXCEPT !.calls = Append(Append(@,
                                 Call("masterGainNode.connect", Undefined, NoValue)),
                                 Call("masterFilter.connect", Undefined, NoValue))]

createOscillator(s, frequency) ==
    [s EXCEPT !.oscs = Append(@, [frequency |-> frequency, started |-> FALSE,
                                  stopped |-> FALSE]),
              !.calls = Append(@, Call("createOscillator", Len(s.oscs) + 1, frequency))]

createGain(s, value) ==
    [s EXCEPT !.calls = Append(Append(@,
                  Call("createGain", Undefined, value)),
                  Call("gainNode.connect(masterGainNode)", Undefined, NoValue))]

\* A playNote without the test for a missing AudioContext.
playNoteUnguarded(s, note, velocity) ==
    LET s1 == createOscillator(s, midiNoteToFreq(note))
        osc == Len(s1.oscs)
        s2 == createGain(s1, midiVelocityToGain(velocity))
    IN  [s2 EXCEPT !.pressedKeys[note] = osc,
                   !.oscs[osc].started = TRUE,
                   !.calls = Append(Append(@,
                       Call("osc.connect(gainNode)", osc, NoValue)),
                       Call("osc.start", osc, NoValue))]

\* A playNote that keeps the entry of a note that is already sounding.
playNoteKeepsFirst(s, note, velocity) ==
    IF s.audioContext = Undefined
    THEN s
    ELSE LET s1 == createOscillator(s, midiNoteToFreq(note))
             osc == Len(s1.oscs)
             s2 == createGain(s1, midiVelocityToGain(velocity))
         IN  [s2 EXCEPT !.pressedKeys[note] = IF @ # Undefined THEN @ ELSE osc,
                        !.oscs[osc].started = TRUE,
                        !.calls = Append(Append(@,
                            Call("osc.connect(gainNode)", osc, NoValue)),
                            Call("osc.start", osc, NoValue))]

\* A playNote that takes a NoteOn with velocity 0 for a NoteOff, as the MIDI
\* convention has it.
playNoteVelocityZeroIsNoteOff(s, note, velocity) ==
    IF s.audioContext = Undefined
    THEN s
    ELSE IF velocity = 0
    THEN LET old == s.pressedKeys[note]
         IN  IF old = Undefined
             THEN s
             ELSE [s EXCEPT !.oscs[old].stopped = TRUE,
                            !.pressedKeys[note] = Undefined,
                            !.calls = Append(@, Call("osc.stop", old, NoValue))]
    ELSE LET s1 == createOscillator(s, midiNoteToFreq(note))
             osc == Len(s1.oscs)
             s2 == createGain(s1, midiVelocityToGain(velocity))
         IN  [s2 EXCEPT !.pressedKeys[note] = osc,
                        !.oscs[osc].started = TRUE,
                        !.calls = Append(Append(@,
                            Call("osc.connect(gainNode)", osc, NoValue)),
                            Call("osc.start", osc, NoValue))]

playNote(s, note, velocity) ==
    IF s.audioContext = Undefined
    THEN s
    ELSE LET freq == midiNoteToFreq(note)
             s1 == createOscillator(s, freq)
             osc == Len(s1.oscs)
             gainVal == midiVelocityToGain(velocity)
             s2 == createGain(s1, gainVal)
         IN  [s2 EXCEPT !.pressedKeys[note] = osc,
                        !.oscs[osc].started = TRUE,
                        !.calls = Append(Append(@,
                            Call("osc.connect(gainNode)", osc, NoValue)),
                            Call("osc.start", osc, NoValue))]

\* A stopNote that stops the generator and forgets to delete the entry.
stopNoteKeepsEntry(s, note) ==
    LET osc == s.pressedKeys[note]
    IN  IF osc = Undefined
        THEN s
        ELSE [s EXCEPT !.oscs[osc].stopped = TRUE,
                       !.calls = Append(@, Call("osc.stop", osc, NoValue))]

\* A stopNote without the test for a missing entry: osc.stop() on undefined
\* throws.
stopNoteUnguarded(s, note) ==
    LET osc == s.pressedKeys[note]
    IN  IF osc = Undefined
        THEN [s EXCEPT !.uncaught = @ \cup {"TypeError"}]
        ELSE [s EXCEPT !.oscs[osc].stopped = TRUE,
                       !.pressedKeys[note] = Undefined,
                       !.calls = Append(@, Call("osc.stop", osc, NoValue))]

stopNote(s, note) ==
    LET osc == s.pressedKeys[note]
    IN  IF osc = Undefined
        THEN s
        ELSE [s EXCEPT !.oscs[osc].stopped = TRUE,
                       !.pressedKeys[note] = Undefined,
                       !.calls = Append(@, Call("osc.stop", osc, NoValue))]

setMasterGain(s, value) ==
    IF s.masterGainNode.created
    THEN [s EXCEPT !.masterGainNode.gain = value]
    ELSE s

\* A setMasterFilterFreq that assigns to the AudioParam itself, as
\* createFilter does: the assignment is ignored.
setMasterFilterFreqAssignsParam(s, data) == s

setMasterFilterFreq(s, data) ==
    IF s.masterFilter.created
    THEN [s EXCEPT !.masterFilter.frequency = Rat(data * 1000, 64)]
    ELSE s

(* ------------------------------------------------------------------- MIDI *)

\* EventTarget.addEventListener: adding a listener that is already attached
\* (same type, same callback) changes nothing.
addEventListener(s, port, type) ==
    LET s1 == [s EXCEPT !.calls = Append(@, Call("addEventListener", port, NoValue))]
    IN  IF type = "midimessage"
        THEN [s1 EXCEPT !.msgListener[port] = TRUE]
        ELSE [s1 EXCEPT !.stateListener[port] = TRUE]

removeEventListener(s, port, type) ==
    LET s1 == [s EXCEPT !.calls = Append(@, Call("removeEventListener", port, NoValue))]
    IN  IF type = "midimessage"
        THEN [s1 EXCEPT !.msgListener[port] = FALSE]
        ELSE [s1 EXCEPT !.stateListener[port] = FALSE]

\* An enableMidiInput without the test for a recorded device.
enableMidiInputUnguarded(s, input) ==
    LET s1 == logStatus(s, "Found MIDI input")
        s2 == addEventListener(s1, input, "statechange")
        s3 == addEventListener(s2, input, "midimessage")
    IN  [s3 EXCEPT !.midiPorts[input] = input]

enableMidiInput(s, input) ==
    IF s.midiPorts[input] # Undefined
    THEN s
    ELSE LET s1 == logStatus(s, "Found MIDI input")
             s2 == addEventListener(s1, input, "statechange")
             s3 == addEventListener(s2, input, "midimessage")
         IN  [s3 EXCEPT !.midiPorts[input] = input]

\* A disableMidiInput that forgets to detach onMidiMessage.
disableMidiInputKeepsHandler(s, input) ==
    IF s.midiPorts[input] = Undefined
    THEN s
    ELSE LET s1 == logStatus(s, "Disabling MIDI input")
             s2 == removeEventListener(s1, input, "statechange")
         IN  [s2 EXCEPT !.midiPorts[input] = Undefined]

\* A disableMidiInput that detaches the handlers and forgets to delete the
\* record of the device.
disableMidiInputKeepsRecord(s, input) ==
    IF s.midiPorts[input] = Undefined
    THEN s
    ELSE LET s1 == logStatus(s, "Disabling MIDI input")
             s2 == removeEventListener(s1, input, "statechange")
         IN  removeEventListener(s2, input, "midimessage")

\* A disableMidiInput that silences the synth: it empties the Voice Registry
\* when a device goes away.
disableMidiInputSilences(s, input) ==
    IF s.midiPorts[input] = Undefined
    THEN s
    ELSE LET s1 == logStatus(s, "Disabling MIDI input")
             s2 == removeEventListener(s1, input, "statechange")
             s3 == removeEventListener(s2, input, "midimessage")
         IN  [s3 EXCEPT !.midiPorts[input] = Undefined,
                        !.pressedKeys = [n \in Notes |-> Undefined]]

disableMidiInput(s, input) ==
    IF s.midiPorts[input] = Undefined
    THEN s
    ELSE LET s1 == logStatus(s, "Disabling MIDI input")
             s2 == removeEventListener(s1, input, "statechange")
             s3 == removeEventListener(s2, input, "midimessage")
         IN  [s3 EXCEPT !.midiPorts[input] = Undefined]

onStateChange(s, port, state) ==
    LET s1 == logStatus(s, "State change")
    IN  IF PortType(port) = "input"
        THEN CASE state = "connected" -> enableMidiInput(s1, port)
               [] state = "disconnected" -> disableMidiInput(s1, port)
               [] OTHER -> s1
        ELSE s1

isNoteOn(statusByte) == statusByte >= 144 /\ statusByte <= 159

\* An isNoteOff that knows the first channel only.
isNoteOffFirstChannel(statusByte) == statusByte = 128

\* An isNoteOff whose range runs one status byte into the NoteOn range.
isNoteOffThrough144(statusByte) == statusByte >= 128 /\ statusByte <= 144

isNoteOff(statusByte) == statusByte >= 128 /\ statusByte <= 143

\* The branches of the dispatcher whose test a status byte passes.
Classifications(statusByte) ==
    {c \in {"NoteOn", "NoteOff", "ControlChange", "PitchBend"} :
        \/ c = "NoteOn" /\ isNoteOn(statusByte)
        \/ c = "NoteOff" /\ isNoteOff(statusByte)
        \/ c = "ControlChange" /\ statusByte = 176
        \/ c = "PitchBend" /\ statusByte = 224}

\* An onMidiMessage that scales the volume as the filter cutoff is scaled,
\* by 64.
onMidiMessageVolumeOver64(s, statusByte, data1, data2) ==
    LET s0 == printMessageInfo(s)
        s1 == IF isNoteOn(statusByte) THEN playNote(s0, data1, data2) ELSE s0
        s2 == IF isNoteOff(statusByte) THEN stopNote(s1, data1) ELSE s1
        s3 == IF statusByte = 176
              THEN CASE data1 = 1 -> s2
                     [] data1 = 7 -> setMasterGain(s2, Rat(data2, 64))
                     [] OTHER -> s2
              ELSE s2
    IN  IF statusByte = 224 THEN setMasterFilterFreq(s3, data2) ELSE s3

\* An onMidiMessage that takes a ControlChange on any of the 16 channels.
onMidiMessageAnyChannel(s, statusByte, data1, data2) ==
    LET s0 == printMessageInfo(s)
        s1 == IF isNoteOn(statusByte) THEN playNote(s0, data1, data2) ELSE s0
        s2 == IF isNoteOff(statusByte) THEN stopNote(s1, data1) ELSE s1
        s3 == IF statusByte >= 176 /\ statusByte <= 191
              THEN CASE data1 = 1 -> s2
                     [] data1 = 7 -> setMasterGain(s2, Rat(data2, 127))
                     [] OTHER -> s2
              ELSE s2
    IN  IF statusByte = 224 THEN setMasterFilterFreq(s3, data2) ELSE s3

onMidiMessage(s, statusByte, data1, data2) ==
    LET s0 == printMessageInfo(s)
        s1 == IF isNoteOn(statusByte) THEN playNote(s0, data1, data2) ELSE s0
        s2 == IF isNoteOff(statusByte) THEN stopNote(s1, data1) ELSE s1
        s3 == IF statusByte = 176
              THEN CASE data1 = 1 -> s2
                     [] data1 = 7 -> setMasterGain(s2, Rat(data2, 127))
                     [] OTHER -> s2
              ELSE s2
    IN  IF statusByte = 224 THEN setMasterFilterFreq(s3, data2) ELSE s3

\* The dispatcher of the earlier revision, written as one if / else-if chain.
onMidiMessageElseIf(s, statusByte, data1, data2) ==
    LET s0 == printMessageInfo(s)
    IN  IF isNoteOn(statusByte) THEN playNote(s0, data1, data2)
        ELSE IF isNoteOff(statusByte) THEN stopNote(s0, data1)
        ELSE IF statusByte = 176
             THEN CASE data1 = 1 -> s0
                    [] data1 = 7 -> setMasterGain(s0, Rat(data2, 127))
                    [] OTHER -> s0
        ELSE IF statusByte = 224 THEN setMasterFilterFreq(s0, data2)
        ELSE s0

\* access.inputs.forEach(enableMidiInput), in the order of the port numbers.
RECURSIVE forEachEnable(_, _)
forEachEnable(s, inputs) ==
    IF inputs = {}
    THEN s
    ELSE LET input == CHOOSE i \in inputs : \A j \in inputs : i <= j
         IN  forEachEnable(enableMidiInput(s, input), inputs \ {input})

\* setupMidi after its await: the access request was granted.
setupMidiGranted(s, inputs) ==
    forEachEnable([s EXCEPT !.accessListener = TRUE,
                            !.calls = Append(@, Call("access.addEventListener",
                                                     Undefined, NoValue))],
                  inputs)

\* setupMidi after its await: the access request was rejected (catch block).
setupMidiRejected(s) == logStatus(s, "Error setting up MIDI")

\* setupMidi up to its await.
setupMidi(s) ==
    LET s1 == logStatus(s, "Setting up MIDI...")
    IN  [s1 EXCEPT !.calls = Append(@, Call("requestMIDIAccess", Undefined, NoValue))]

\* An onStartBtnClick that leaves the start button enabled.
onStartBtnClickKeepsButton(s, ACtx) == createAudio(s, ACtx)

\* An onStartBtnClick that starts the audio engine only once MIDI access was
\* granted.
onStartBtnClickNeedsAccess(s, ACtx) ==
    disableStartBtn(IF s.accessListener THEN createAudio(s, ACtx) ELSE s,
                    Options("Synth Running"))

onStartBtnClick(s, ACtx) ==
    disableStartBtn(createAudio(s, ACtx), Options("Synth Running"))

onDomContentLoaded(s, midiSupport) ==
    IF ~midiSupport
    THEN disableStartBtn(logStatus(s, "No MIDI support available."), NoArgument)
    ELSE LET s1 == setupMidi(s)
         IN  [s1 EXCEPT !.startBtn.clickListener = TRUE,
                        !.calls = Append(@, Call("startBtn.addEventListener",
                                                 Undefined, NoValue))]

(* ---------------------------------------------------------------- actions *)

Init ==
    /\ hasMIDI \in BOOLEAN
    /\ hasACtx \in BOOLEAN
    /\ pc = "loading"
    /\ startBtn = [disabled |-> FALSE, text |-> "Start", clickListener |-> FALSE]
    /\ audioContext = Undefined
    /\ masterGainNode = [created |-> FALSE, gain |-> NoValue]
    /\ masterFilter = [created |-> FALSE, type |-> "", frequency |-> NoValue,
                       Q |-> NoValue]
    /\ midiPorts = [p \in InputPorts |-> Undefined]
    /\ pressedKeys = [n \in Notes |-> Undefined]
    /\ accessListener = FALSE
    /\ stateListener = [p \in Ports |-> FALSE]
    /\ msgListener = [p \in Ports |-> FALSE]
    /\ oscs = <<>>
    /\ status = [m \in OneOffLines |-> 0]
    /\ uncaught = {}
    /\ calls = <<>>
    /\ last = Event("none", Undefined, FALSE, Undefined)
    /\ noteHist = [n \in Notes |-> "none"]
    /\ portHist = [p \in InputPorts |-> "never"]
    /\ msg = NoMessage
    /\ voiceOrigin = [n \in Notes |-> Undefined]
    /\ lastNotice = [p \in InputPorts |-> FALSE]
    /\ idleVolume = FALSE

\* The effective enable/disable of each port, as the registry shows it.
PortHistAfter(s) ==
    [p \in InputPorts |->
        IF midiPorts[p] = Undefined /\ s.midiPorts[p] # Undefined THEN "enabled"
        ELSE IF midiPorts[p] # Undefined /\ s.midiPorts[p] = Undefined THEN "disabled"
        ELSE portHist[p]]

\* The page finished loading.
DomContentLoaded ==
    /\ pc = "loading"
    /\ Becomes(onDomContentLoaded(Prog, hasMIDI))
    /\ pc' = IF hasMIDI THEN "awaitAccess" ELSE "unsupported"
    /\ last' = Event("DOMContentLoaded", Undefined, TRUE, Undefined)
    /\ msg' = NoMessage
    /\ UNCHANGED idleVolume
    /\ UNCHANGED <<hasMIDI, hasACtx, noteHist, portHist, voiceOrigin, lastNotice>>

\* navigator.requestMIDIAccess() resolved with the inputs present.
AccessGranted ==
    /\ pc = "awaitAccess"
    /\ \E inputs \in SUBSET InputPorts :
          LET s == setupMidiGranted(Prog, inputs)
          IN  /\ Becomes(s)
              /\ portHist' = PortHistAfter(s)
              /\ lastNotice' = [p \in InputPorts |-> p \in inputs \/ lastNotice[p]]
    /\ pc' = "ready"
    /\ last' = Event("granted", Undefined, TRUE, Undefined)
    /\ msg' = NoMessage
    /\ UNCHANGED idleVolume
    /\ UNCHANGED <<hasMIDI, hasACtx, noteHist, voiceOrigin>>

\* navigator.requestMIDIAccess() was rejected.
AccessRejected ==
    /\ pc = "awaitAccess"
    /\ Becomes(setupMidiRejected(Prog))
    /\ pc' = "failed"
    /\ last' = Event("rejected", Undefined, TRUE, Undefined)
    /\ msg' = NoMessage
    /\ UNCHANGED idleVolume
    /\ UNCHANGED <<hasMIDI, hasACtx, noteHist, portHist, voiceOrigin, lastNotice>>

\* The user clicks the start button: a disabled button raises no click.
StartBtnClick ==
    /\ ~startBtn.disabled
    /\ last' = Event("click", Undefined, startBtn.clickListener, Undefined)
    /\ IF startBtn.clickListener
       THEN Becomes(onStartBtnClick(Prog, hasACtx))
       ELSE Becomes(Prog)
    /\ msg' = NoMessage
    /\ UNCHANGED idleVolume
    /\ UNCHANGED <<hasMIDI, hasACtx, pc, noteHist, portHist, voiceOrigin,
                   lastNotice>>

\* The environment raises a statechange for a port; it reaches onStateChange
\* through the listener on the MIDIAccess object or the one on the port.
StateChangeOf(port, state) ==
    LET heard == accessListener \/ stateListener[port]
        s == IF heard THEN onStateChange(Prog, port, state) ELSE Prog
    IN  /\ Becomes(s)
        /\ portHist' = PortHistAfter(s)
        /\ last' = Event(state, port, heard, Undefined)
        /\ msg' = NoMessage
        /\ UNCHANGED idleVolume
        /\ lastNotice' = IF heard /\ port \in InputPorts
                         THEN [lastNotice EXCEPT ![port] = (state = "connected")]
                         ELSE lastNotice
        /\ UNCHANGED <<hasMIDI, hasACtx, pc, noteHist, voiceOrigin>>

\* The origin of each note's last voice after a message from port was
\* handled.
VoiceOriginAfter(port, statusByte, data1) ==
    IF isNoteOn(statusByte) /\ audioContext # Undefined
    THEN [voiceOrigin EXCEPT ![data1] = port]
    ELSE voiceOrigin

\* Whether a volume message was handled while Idle, after a handled message.
IdleVolumeAfter(statusByte, data1) ==
    IF audioContext = Undefined
    THEN idleVolume \/ (statusByte = 176 /\ data1 = 7)
    ELSE FALSE

NoteHistAfter(statusByte, data1) ==
    IF isNoteOn(statusByte)
    THEN [noteHist EXCEPT ![data1] = IF audioContext # Undefined THEN "on" ELSE "onIdle"]
    ELSE IF isNoteOff(statusByte)
    THEN [noteHist EXCEPT ![data1] = "off"]
    ELSE noteHist

\* An input port produces a MIDI message; it reaches onMidiMessage when the
\* handler is attached to the port.
MidiMessageOf(port, statusByte, data1, data2) ==
    LET heard == msgListener[port]
        s == IF heard THEN onMidiMessage(Prog, statusByte, data1, data2) ELSE Prog
    IN  /\ Len(s.oscs) <= MaxOsc
        /\ Becomes(s)
        /\ noteHist' = IF heard THEN NoteHistAfter(statusByte, data1) ELSE noteHist
        /\ last' = IF heard /\ isNoteOn(statusByte)
                   THEN Event("noteOn", port, TRUE, data1)
                   ELSE IF heard /\ isNoteOff(statusByte)
                   THEN Event("noteOff", port, TRUE, data1)
                   ELSE Event("midimessage", port, heard, Undefined)
        /\ msg' = (IF heard THEN <<statusByte, data1, data2>> ELSE NoMessage)
        /\ voiceOrigin' = IF heard THEN VoiceOriginAfter(port, statusByte, data1)
                          ELSE voiceOrigin
        /\ idleVolume' = IF heard THEN IdleVolumeAfter(statusByte, data1)
                         ELSE idleVolume
        /\ UNCHANGED <<hasMIDI, hasACtx, pc, portHist, lastNotice>>

StateChange ==
    \E port \in Ports, state \in PortStates : StateChangeOf(port, state)

MidiMessage ==
    \E port \in InputPorts, m \in Messages : MidiMessageOf(port, m[1], m[2], m[3])

Next ==
    \/ DomContentLoaded
    \/ AccessGranted
    \/ AccessRejected
    \/ StartBtnClick
    \/ StateChange
    \/ MidiMessage

Spec == Init /\ [][Next]_vars

\* The page once MIDI access was granted with the first input port alone,
\* before the start action: the state DomContentLoaded and AccessGranted
\* lead to.
DecoderInit ==
    /\ hasMIDI = TRUE
    /\ hasACtx \in BOOLEAN
    /\ pc = "ready"
    /\ startBtn = [disabled |-> FALSE, text |-> "Start", clickListener |-> TRUE]
    /\ audioContext = Undefined
    /\ masterGainNode = [created |-> FALSE, gain |-> NoValue]
    /\ masterFilter = [created |-> FALSE, type |-> "", frequency |-> NoValue,
                       Q |-> NoValue]
    /\ midiPorts = [p \in InputPorts |-> IF p = 1 THEN 1 ELSE Undefined]
    /\ pressedKeys = [n \in Notes |-> Undefined]
    /\ accessListener = TRUE
    /\ stateListener = [p \in Ports |-> p = 1]
    /\ msgListener = [p \in Ports |-> p = 1]
    /\ oscs = <<>>
    /\ status = [m \in OneOffLines |-> 0]
    /\ uncaught = {}
    /\ calls = <<Call("access.addEventListener", Undefined, NoValue),
                 Call("logStatus", Undefined, NoValue),
                 Call("addEventListener", 1, NoValue),
                 Call("addEventListener", 1, NoValue)>>
    /\ last = Event("granted", Undefined, TRUE, Undefined)
    /\ noteHist = [n \in Notes |-> "none"]
    /\ portHist = [p \in InputPorts |-> IF p = 1 THEN "enabled" ELSE "never"]
    /\ msg = NoMessage
    /\ voiceOrigin = [n \in Notes |-> Undefined]
    /\ lastNotice = [p \in InputPorts |-> p = 1]
    /\ idleVolume = FALSE

\* The first input port sends every status byte.
DecoderMessage ==
    \E m \in DecoderMessages : MidiMessageOf(1, m[1], m[2], m[3])

DecoderNext ==
    \/ StartBtnClick
    \/ DecoderMessage

DecoderSpec == DecoderInit /\ [][DecoderNext]_vars

\* The same page with one input port that plays one note with every velocity.
MapperMessage ==
    \E m \in MapperMessages : MidiMessageOf(1, m[1], m[2], m[3])

MapperNext ==
    \/ DomContentLoaded
    \/ AccessGranted
    \/ StartBtnClick
    \/ MapperMessage

MapperSpec == Init /\ [][MapperNext]_vars

(* ------------------------------------------------- derived observations *)

\* The kinds of event that are a MIDI message.
MessageKinds == {"noteOn", "noteOff", "midimessage"}

Running == audioContext # Undefined

Idle == audioContext = Undefined

\* The rational r lies in [0, 1].
InUnitInterval(r) == r[2] > 0 /\ 0 <= r[1] /\ r[1] <= r[2]

\* Generators that were started and not stopped.
LiveOscs == {i \in 1..Len(oscs) : oscs[i].started /\ ~oscs[i].stopped}

\* Generators the Voice Registry holds.
RegisteredOscs == {pressedKeys[n] : n \in Notes} \ {Undefined}

\* The calls of a call trace that command the audio engine.
EngineOps == {"new AudioContext", "createGain", "createBiquadFilter",
              "masterGainNode.connect", "masterFilter.connect",
              "createOscillator", "gainNode.connect(masterGainNode)",
              "osc.connect(gainNode)", "osc.start", "osc.stop"}

IsEngineCall(c) == c.op \in EngineOps

EngineCalls(trace) == SelectSeq(trace, IsEngineCall)

IsStopCall(c) == c.op = "osc.stop"

StopCalls(trace) == SelectSeq(trace, IsStopCall)

\* The calls of a call trace that subscribe or unsubscribe a port.
PortOps == {"addEventListener", "removeEventListener"}

IsPortCall(c) == c.op \in PortOps

PortCalls(trace) == SelectSeq(trace, IsPortCall)

\* The state a handler leaves, without the trace of the calls it made.
Outcome(s) == [s EXCEPT !.calls = <<>>]

\* The state after the start action and then the grant of MIDI access with
\* the given inputs, and the state after the two in the other order.
StartThenGrant(inputs) ==
    setupMidiGranted(Outcome(onStartBtnClick(Prog, hasACtx)), inputs)

GrantThenStart(inputs) ==
    onStartBtnClick(Outcome(setupMidiGranted(Prog, inputs)), hasACtx)

\* The page waits for MIDI access and the start action was not taken yet.
AwaitingBoth == pc = "awaitAccess" /\ ~startBtn.disabled

\* The start action was handled.
Started == startBtn.text = "Synth Running"

\* What a step does to the synthesis state: it plays a note, stops one, sets
\* the master gain, sets the filter cutoff.
Effects ==
    {e \in {"play", "stop", "gain", "cutoff"} :
        \/ e = "play" /\ Len(oscs') > Len(oscs)
        \/ e = "stop" /\ StopCalls(calls') # <<>>
        \/ e = "gain" /\ masterGainNode' # masterGainNode
        \/ e = "cutoff" /\ masterFilter' # masterFilter}

(* ----------------------------------------------------------------- claims *)

\* C1: in every reachable state the generators started and not yet stopped
\* are exactly the generators the Voice Registry holds, and no two live
\* generators sound the same note (no leak, no duplicate).
C1_NoLeakNoDuplicate ==
    /\ LiveOscs = RegisteredOscs
    /\ \A i, j \in LiveOscs : oscs[i].frequency = oscs[j].frequency => i = j

\* C2: the Voice Registry holds one entry per note (pressedKeys is a map
\* keyed by the note); while Running, a NoteOn for a note n whose previous
\* message was a NoteOn too leaves, as the entry for n, the generator this
\* second NoteOn created, and leaves the other entries alone.
C2_OverwritePolicy ==
    [][\A n \in Notes :
          (/\ last'.kind = "noteOn" /\ last'.note = n
           /\ Running
           /\ noteHist[n] = "on")
          => /\ Len(oscs') = Len(oscs) + 1
             /\ pressedKeys'[n] = Len(oscs')
             /\ pressedKeys'[n] # pressedKeys[n]
             /\ oscs'[pressedKeys'[n]].frequency = midiNoteToFreq(n)
             /\ \A k \in Notes \ {n} : pressedKeys'[k] = pressedKeys[k]]_vars

\* C2 witness: the entry for a note is the newest generator, and an older
\* generator of the same note, never stopped, was the entry before it.
C2_Witness ==
    /\ last.kind = "noteOn"
    /\ \E n \in Notes :
          /\ noteHist[n] = "on"
          /\ pressedKeys[n] = Len(oscs)
          /\ \E i \in 1..(Len(oscs) - 1) :
                /\ oscs[i].frequency = midiNoteToFreq(n)
                /\ ~oscs[i].stopped

\* C3: while Running, a NoteOff for a note n whose previous message was a
\* NoteOn removes the entry for n and issues exactly one stop command, to
\* the generator that was registered under n.
C3_NoteOnThenNoteOff ==
    [][\A n \in Notes :
          (/\ last'.kind = "noteOff" /\ last'.note = n
           /\ noteHist[n] = "on")
          => /\ pressedKeys[n] # Undefined
             /\ pressedKeys'[n] = Undefined
             /\ StopCalls(calls') = <<Call("osc.stop", pressedKeys[n], NoValue)>>
             /\ oscs'[pressedKeys[n]].stopped]_vars

\* C3 witness: the last message was a NoteOff that stopped the generator of
\* its note, and the registry has no entry for the note.
C3_Witness ==
    /\ last.kind = "noteOff"
    /\ Running
    /\ \E n \in Notes :
          /\ last.note = n
          /\ pressedKeys[n] = Undefined
          /\ Len(StopCalls(calls)) = 1
          /\ oscs[StopCalls(calls)[1].target].frequency = midiNoteToFreq(n)

\* C4: a NoteOff for a note with no entry in the Voice Registry, Idle or
\* Running, issues no audio-engine command, raises no error and leaves the
\* Voice Registry, the Device Registry and the MasterChannel unchanged.
C4_StopUnheldNote ==
    [][\A n \in Notes :
          (/\ last'.kind = "noteOff" /\ last'.note = n
           /\ pressedKeys[n] = Undefined)
          => /\ EngineCalls(calls') = <<>>
             /\ uncaught' = uncaught
             /\ UNCHANGED <<pressedKeys, oscs, midiPorts, msgListener, stateListener,
                            masterGainNode, masterFilter, audioContext>>]_vars

\* C4 witness: while Running a NoteOff was handled for a note that never had
\* a generator.
C4_Witness ==
    /\ last.kind = "noteOff"
    /\ Running
    /\ EngineCalls(calls) = <<>>
    /\ \E n \in Notes :
          /\ last.note = n
          /\ \A i \in 1..Len(oscs) : oscs[i].frequency # midiNoteToFreq(n)

\* C5: while Idle no message creates a voice, touches the MasterChannel or
\* commands the audio engine, and the messages handled while Idle leave
\* nothing behind: the start action finds the Voice Registry empty and
\* creates the MasterChannel with its initial values.
C5_IdleIgnoresMessages ==
    /\ [](Idle => /\ \A n \in Notes : pressedKeys[n] = Undefined
                  /\ oscs = <<>>
                  /\ ~masterGainNode.created
                  /\ ~masterFilter.created
                  /\ EngineCalls(calls) = <<>>)
    /\ [][Idle /\ Running'
          => /\ \A n \in Notes : pressedKeys'[n] = Undefined
             /\ oscs' = <<>>
             /\ masterGainNode' = [created |-> TRUE, gain |-> InitialMasterGain]
             /\ masterFilter'.frequency = Rat(DefaultFilterFrequency, 1)]_vars

\* C5 witness: a NoteOn was handled while Idle, the session is Running now,
\* and the note has no voice.
C5_Witness ==
    /\ Running
    /\ \E n \in Notes : noteHist[n] = "onIdle" /\ pressedKeys[n] = Undefined
    /\ oscs = <<>>

\* C6 as stated: once the start action was handled the session is Running
\* with exactly one audio engine.
C6_StartAlwaysRuns ==
    /\ audioContext \in {Undefined, 1}
    /\ startBtn.text = "Synth Running" => Running

\* C6 amended: the session state changes at most once in a run.  The start
\* action moves it from Idle to Running when the environment has an
\* AudioContext constructor (without one it stays Idle); the start action
\* disables the start control, so no second audio engine or MasterChannel is
\* created, and once Running the session never returns to Idle.
C6_StartsAtMostOnce ==
    /\ [](/\ audioContext \in {Undefined, 1}
          /\ startBtn.text = "Synth Running" => startBtn.disabled
          /\ (startBtn.text = "Synth Running" /\ hasACtx) => Running
          /\ (startBtn.text = "Synth Running" /\ ~hasACtx) => Idle)
    /\ [][/\ Running => UNCHANGED audioContext
          /\ Running => masterGainNode'.created /\ masterFilter'.created
          /\ audioContext' # audioContext
                => Idle /\ last'.kind = "click" /\ last'.heard]_vars

\* C6 witness: the start action ran, the session is Running and later
\* events were handled.
C6_Witness ==
    /\ audioContext = 1
    /\ startBtn.disabled
    /\ last.kind = "noteOn"
    /\ oscs # <<>>

\* C7: when the request for MIDI access is rejected the failure is reported
\* once, no device is ever subscribed and the session stays Idle, also
\* after the start action.
C7_RejectedStaysIdle ==
    pc = "failed"
        => /\ status["Error setting up MIDI"] = 1
           /\ \A p \in InputPorts : ~msgListener[p] /\ midiPorts[p] = Undefined
           /\ Idle

\* C8: when the environment offers no MIDI access the condition is
\* recovered without an error: a status message is logged, no device is
\* subscribed, the start control is disabled and the session stays Idle.
C8_UnsupportedRecovered ==
    pc = "unsupported"
        => /\ uncaught = {}
           /\ status["No MIDI support available."] = 1
           /\ \A p \in InputPorts : ~msgListener[p] /\ midiPorts[p] = Undefined
           /\ startBtn.disabled
           /\ Idle

\* C9: enabling a subscribed device and disabling an unsubscribed one are
\* no-ops (no subscribe or unsubscribe call, registry and listeners
\* unchanged); an enabled device has its one message subscription, and a
\* message is handled at most once.
C9_EnableDisableIdempotent ==
    /\ [][\A port \in InputPorts :
             (/\ last'.kind \in PortStates /\ last'.port = port /\ last'.heard
              /\ (last'.kind = "connected") = (midiPorts[port] # Undefined))
             => /\ PortCalls(calls') = <<>>
                /\ UNCHANGED <<midiPorts, msgListener, stateListener>>]_vars
    /\ [][\A port \in InputPorts :
             (last'.kind = "connected" /\ last'.port = port /\ last'.heard)
             => midiPorts'[port] = port /\ msgListener'[port]]_vars
    /\ [](last.kind \in MessageKinds
             => Len(SelectSeq(calls, LAMBDA c : c.op = "messages.innerText")) <= 1)

\* C9 witness: a connect notification for a device that was already enabled
\* was handled and did nothing but log.
C9_Witness ==
    /\ last.kind = "connected"
    /\ last.heard
    /\ last.port \in InputPorts
    /\ portHist[last.port] = "enabled"
    /\ midiPorts[last.port] = last.port
    /\ Len(calls) = 1

\* C10: a message is handled only when its device is recorded in the Device
\* Registry: the handler is attached to recorded devices only, and a message
\* from a device that is not recorded changes neither the Voice Registry nor
\* the MasterChannel and reaches no handler.
C10_OnlySubscribedDevicesHeard ==
    /\ [](\A port \in InputPorts : msgListener[port] => midiPorts[port] = port)
    /\ [][\A port \in InputPorts :
             (/\ last'.kind \in MessageKinds /\ last'.port = port
              /\ midiPorts[port] = Undefined)
             => /\ calls' = <<>>
                /\ UNCHANGED <<pressedKeys, oscs, masterGainNode, masterFilter,
                               noteHist>>]_vars

\* C10 witness: while Running, a device that was enabled and then disabled
\* sent a message, and no handler heard it.
C10_Witness ==
    /\ last.kind = "midimessage"
    /\ ~last.heard
    /\ portHist[last.port] = "disabled"
    /\ Running

\* C11: the voice registered under a note n stays registered and sounding
\* until a NoteOff for n is handled.  A step that is neither a NoteOn nor a
\* NoteOff for n (a ControlChange, a PitchBend, another message, a NoteOn or
\* NoteOff for another note, the start action, a connect or a disconnect)
\* leaves the entry of n and its generator as they are, and a step that
\* empties the entry of n or stops its generator is a handled NoteOff for n.
C11_OnlyNoteOffRemoves ==
    [][\A n \in Notes :
          pressedKeys[n] # Undefined
          => /\ ~(last'.kind \in {"noteOn", "noteOff"} /\ last'.note = n)
                   => /\ pressedKeys'[n] = pressedKeys[n]
                      /\ oscs'[pressedKeys[n]] = oscs[pressedKeys[n]]
                      /\ \A i \in 1..Len(calls') :
                            IsStopCall(calls'[i]) => calls'[i].target # pressedKeys[n]
             /\ (pressedKeys'[n] = Undefined \/ oscs'[pressedKeys[n]].stopped)
                   => /\ last'.kind = "noteOff" /\ last'.note = n
                      /\ msg' # NoMessage /\ isNoteOff(msg'[1]) /\ msg'[2] = n]_vars

\* C11 witness: every device was disconnected, the last one just now, and a
\* voice is still registered and sounding.
C11_Witness ==
    /\ last.kind = "disconnected"
    /\ last.heard
    /\ \A p \in InputPorts : portHist[p] = "disabled" /\ ~msgListener[p]
    /\ \E n \in Notes :
          /\ pressedKeys[n] # Undefined
          /\ oscs[pressedKeys[n]].started
          /\ ~oscs[pressedKeys[n]].stopped

\* C12: while Running, a ControlChange with controller 7 and value v sets
\* the master gain to v/127 and changes nothing else (voices, filter,
\* registries, start control; no audio-engine command, no error); the
\* master gain lies in [0, 1] in every reachable Running state, and for
\* every v in 0..127 the gain the handler sets, applied to the Running
\* states the start action and the notifications lead to, is v/127 and
\* lies in [0, 1].
C12_VolumeSetsMasterGain ==
    /\ [][(/\ Running
           /\ msg' # NoMessage /\ msg'[1] = 176 /\ msg'[2] = 7)
          => /\ masterGainNode' = [created |-> TRUE, gain |-> Rat(msg'[3], 127)]
             /\ EngineCalls(calls') = <<>>
             /\ UNCHANGED <<pressedKeys, oscs, masterFilter, audioContext,
                            midiPorts, msgListener, stateListener, accessListener,
                            startBtn, status, uncaught>>]_vars
    /\ [](Running => masterGainNode.created /\ InUnitInterval(masterGainNode.gain))
    /\ []((Running /\ msg = NoMessage)
             => \A v \in DataBytes :
                   LET s == onMidiMessage(Prog, 176, 7, v)
                   IN  /\ s.masterGainNode.gain = Rat(v, 127)
                       /\ InUnitInterval(s.masterGainNode.gain))

\* C12 witness: while Running a voice sounds and the volume controller was
\* just handled with value 64: the master gain is 64/127.
C12_Witness ==
    /\ Running
    /\ msg = <<176, 7, 64>>
    /\ masterGainNode.gain = Rat(64, 127)
    /\ LiveOscs # {}

\* C13: while Running, a PitchBend (status 224) with data bytes d1, d2 sets
\* the master filter cutoff to (d2 / 64) * 1000 whatever d1 is (1000 for
\* d2 = 64, 0 for d2 = 0) and leaves the Voice Registry, the generators and
\* the master gain unchanged.
C13_PitchBendSetsCutoff ==
    /\ [][(/\ Running
           /\ msg' # NoMessage /\ msg'[1] = 224)
          => /\ masterFilter' = [masterFilter EXCEPT
                                   !.frequency = Rat(msg'[3] * 1000, 64)]
             /\ msg'[3] = 64 => RatEq(masterFilter'.frequency, Rat(1000, 1))
             /\ msg'[3] = 0 => RatEq(masterFilter'.frequency, Rat(0, 1))
             /\ EngineCalls(calls') = <<>>
             /\ uncaught' = uncaught
             /\ UNCHANGED <<pressedKeys, oscs, masterGainNode>>]_vars
    /\ [](Running
             => \A d1 \in {0, 1, 7, 64, 127}, d2 \in {0, 64, 127} :
                   LET s == onMidiMessage(Prog, 224, d1, d2)
                   IN  /\ RatEq(s.masterFilter.frequency, Rat(d2 * 1000, 64))
                       /\ s.pressedKeys = pressedKeys
                       /\ s.masterGainNode = masterGainNode)

\* C13 witness: while Running a voice sounds, the volume was changed, and a
\* PitchBend with d2 = 64 was just handled: the cutoff is 1000.
C13_Witness ==
    /\ Running
    /\ msg = <<224, 0, 64>>
    /\ RatEq(masterFilter.frequency, Rat(1000, 1))
    /\ masterGainNode.gain # InitialMasterGain
    /\ LiveOscs # {}

\* C14: a handled message that is not a NoteOn (status 144..159), a NoteOff
\* (128..143), a ControlChange on status 176 with controller 7 or a
\* PitchBend on status 224 leaves the Voice Registry, the generators and the
\* MasterChannel unchanged, commands the audio engine to do nothing and
\* raises no error, Idle or Running: status 176 with controller 1 or any
\* other controller, and every other status byte.
C14_OtherMessagesIgnored ==
    [][(/\ msg' # NoMessage
        /\ ~isNoteOn(msg'[1])
        /\ ~isNoteOff(msg'[1])
        /\ ~(msg'[1] = 176 /\ msg'[2] = 7)
        /\ msg'[1] # 224)
       => /\ EngineCalls(calls') = <<>>
          /\ uncaught' = uncaught
          /\ UNCHANGED <<pressedKeys, oscs, masterGainNode, masterFilter,
                         audioContext, midiPorts, msgListener, stateListener>>]_vars

\* C14 witness: while Running with a voice sounding, a volume controller on
\* the second channel (status 177) was just handled, and the master gain is
\* the initial one.
C14_Witness ==
    /\ Running
    /\ msg = <<177, 7, 64>>
    /\ masterGainNode.gain = InitialMasterGain
    /\ LiveOscs # {}
    /\ uncaught = {}

\* C15: every status byte 0..255 passes the test of at most one branch of
\* the dispatcher (NoteOn, NoteOff, ControlChange, PitchBend; Other when it
\* passes none), a handled message has at most one of the effects play,
\* stop, set master gain, set filter cutoff, and the dispatcher written as
\* independent if statements leaves every handled message with the state
\* and the calls the dispatcher written as an if / else-if chain gives.
C15_OneClassification ==
    /\ [](\A statusByte \in StatusBytes :
             Cardinality(Classifications(statusByte)) <= 1)
    /\ [][msg' # NoMessage
          => /\ Cardinality(Effects) <= 1
             /\ [Prog' EXCEPT !.calls = calls']
                   = onMidiMessageElseIf(Prog, msg'[1], msg'[2], msg'[3])]_vars

\* C15 witness: while Running, a NoteOn on the last channel was handled for
\* a note that was sounding already and is the newest generator now.
C15_Witness ==
    /\ Running
    /\ msg = <<159, 7, 64>>
    /\ Len(oscs) >= 2
    /\ pressedKeys[7] = Len(oscs)
    /\ Classifications(msg[1]) = {"NoteOn"}

\* C16: midiVelocityToGain(v) = ln(10^v) / 292.4283068102438 is strictly
\* increasing over the velocities 1..127: a greater velocity gives a greater
\* gain, and the gain stage of a NoteOn handled while Running is set to the
\* gain of its velocity.
C16_VelocityToGainIncreasing ==
    /\ [](\A v, w \in 1..127 :
             v < w => RatLess(midiVelocityToGain(v), midiVelocityToGain(w)))
    /\ [][(Running /\ msg' # NoMessage /\ isNoteOn(msg'[1]))
          => \E i \in 1..Len(calls') :
                calls'[i] = Call("createGain", Undefined, midiVelocityToGain(msg'[3]))]_vars

\* C16 witness: a NoteOn with the greatest velocity was handled while
\* Running, after another NoteOn; its gain stage is set to a gain greater
\* than the one of velocity 126.
C16_Witness ==
    /\ Running
    /\ msg = <<144, 7, 127>>
    /\ Len(oscs) >= 2
    /\ \E i \in 1..Len(calls) :
          /\ calls[i].op = "createGain"
          /\ RatLess(midiVelocityToGain(126), calls[i].arg)

\* C17: while Running, every handled NoteOn with note n and velocity v
\* (v = 0 included) creates exactly one generator, with frequency
\* midiNoteToFreq(n), and one gain stage set to midiVelocityToGain(v) and
\* connected to the master gain, connects the generator to that stage,
\* registers the generator under n and starts it; the generators that
\* existed, the other entries, the master gain and the filter are unchanged.
C17_NoteOnStartsVoice ==
    [][(Running /\ msg' # NoMessage /\ isNoteOn(msg'[1]))
       => LET n == msg'[2]
              v == msg'[3]
              osc == Len(oscs) + 1
          IN  /\ oscs' = Append(oscs, [frequency |-> midiNoteToFreq(n),
                                       started |-> TRUE, stopped |-> FALSE])
              /\ pressedKeys' = [pressedKeys EXCEPT ![n] = osc]
              /\ EngineCalls(calls')
                    = <<Call("createOscillator", osc, midiNoteToFreq(n)),
                        Call("createGain", Undefined, midiVelocityToGain(v)),
                        Call("gainNode.connect(masterGainNode)", Undefined, NoValue),
                        Call("osc.connect(gainNode)", osc, NoValue),
                        Call("osc.start", osc, NoValue)>>
              /\ uncaught' = uncaught
              /\ UNCHANGED <<masterGainNode, masterFilter, audioContext>>]_vars

\* C17 witness: while Running a NoteOn with velocity 0 was handled for a
\* note that was sounding: its new generator is registered and started, and
\* the old one was not stopped.
C17_Witness ==
    /\ Running
    /\ msg = <<159, 60, 0>>
    /\ Len(oscs) >= 2
    /\ pressedKeys[60] = Len(oscs)
    /\ oscs[Len(oscs)] = [frequency |-> midiNoteToFreq(60), started |-> TRUE,
                          stopped |-> FALSE]
    /\ \E i \in 1..(Len(oscs) - 1) :
          oscs[i].frequency = midiNoteToFreq(60) /\ ~oscs[i].stopped
    /\ StopCalls(calls) = <<>>

\* C18 as stated: the start action and the completion of the MIDI-access
\* request commute, and whichever comes first the session is Running with
\* the granted inputs subscribed, each once.
C18_StartOrderIrrelevant ==
    /\ AwaitingBoth
          => \A inputs \in SUBSET InputPorts :
                /\ Outcome(StartThenGrant(inputs)) = Outcome(GrantThenStart(inputs))
                /\ StartThenGrant(inputs).audioContext # Undefined
                /\ \A port \in InputPorts :
                      StartThenGrant(inputs).msgListener[port] <=> port \in inputs
    /\ (pc = "ready" /\ Started) => Running

\* C18 amended: every handler is one step, the request for MIDI access is
\* the only suspension, and the start action and the completion of the
\* request commute: in either order the same state results, with exactly
\* the granted inputs recorded and subscribed, each by one pair of
\* addEventListener calls, the start control disabled, and the session
\* Running when the environment has an AudioContext constructor (Idle when
\* it has none).
C18_StartOrderIrrelevantGivenEngine ==
    /\ [](AwaitingBoth
             => \A inputs \in SUBSET InputPorts :
                   /\ Outcome(StartThenGrant(inputs)) = Outcome(GrantThenStart(inputs))
                   /\ StartThenGrant(inputs).audioContext # Undefined <=> hasACtx
                   /\ StartThenGrant(inputs).startBtn.disabled
                   /\ \A port \in InputPorts :
                         /\ StartThenGrant(inputs).msgListener[port] <=> port \in inputs
                         /\ StartThenGrant(inputs).midiPorts[port] # Undefined
                               <=> port \in inputs)
    /\ []((pc \in {"ready", "failed"} /\ Started) => (Running <=> hasACtx))
    /\ [][last'.kind = "granted"
          => /\ UNCHANGED <<audioContext, masterGainNode, masterFilter, startBtn,
                            pressedKeys, oscs>>
             /\ \A port \in InputPorts :
                   Len(SelectSeq(calls', LAMBDA c : IsPortCall(c) /\ c.target = port))
                       = IF msgListener'[port] THEN 2 ELSE 0]_vars
    /\ [][(last'.kind = "click" /\ last'.heard)
          => UNCHANGED <<midiPorts, msgListener, stateListener, accessListener,
                         pressedKeys, oscs>>]_vars

\* C18 witness: the start action was handled while the request for MIDI
\* access was pending, the request was granted just now, and the session is
\* Running with two devices subscribed.
C18_Witness ==
    /\ last.kind = "granted"
    /\ pc = "ready"
    /\ Started
    /\ Running
    /\ \A port \in InputPorts : msgListener[port] /\ midiPorts[port] = port

\* C19: the Voice Registry is keyed by the note alone: a handled NoteOff for
\* a note n with a registered voice, on any channel (status 128..143) and
\* from any subscribed device, stops that voice and removes its entry,
\* whichever channel and device delivered the NoteOn that created it.
C19_NoteOffAnyChannelAnyDevice ==
    [][(/\ msg' # NoMessage /\ msg'[1] \in 128..143
        /\ pressedKeys[msg'[2]] # Undefined)
       => LET n == msg'[2]
              osc == pressedKeys[n]
          IN  /\ voiceOrigin[n] \in InputPorts
              /\ pressedKeys' = [pressedKeys EXCEPT ![n] = Undefined]
              /\ oscs' = [oscs EXCEPT ![osc].stopped = TRUE]
              /\ ~oscs[osc].stopped
              /\ StopCalls(calls') = <<Call("osc.stop", osc, NoValue)>>]_vars

\* C19 witness: a NoteOff on the last channel from the second device just
\* stopped and removed the voice of note 7, which a NoteOn from the first
\* device had created (on the first channel, as every NoteOn for note 7 is).
C19_Witness ==
    /\ msg = <<143, 7, 0>>
    /\ last.port = 2
    /\ pressedKeys[7] = Undefined
    /\ voiceOrigin[7] = 1
    /\ Len(StopCalls(calls)) = 1
    /\ oscs[StopCalls(calls)[1].target].stopped
    /\ \A p \in InputPorts : msgListener[p]

\* C20: from the grant of MIDI access on, an input port is recorded in the
\* Device Registry, with onMidiMessage attached, exactly when the last the
\* script was told about it is a connect, or its presence among the inputs
\* enumerated at the grant; a port it was last told is disconnected, or was
\* never told of, is not recorded and has no handler.  A notification for a
\* port that is not an input changes neither the registry nor a handler.
C20_RegistryFollowsNotifications ==
    /\ [](pc = "ready"
             => \A port \in InputPorts :
                   IF lastNotice[port]
                   THEN midiPorts[port] = port /\ msgListener[port]
                   ELSE midiPorts[port] = Undefined /\ ~msgListener[port])
    /\ [][(last'.kind \in PortStates /\ last'.heard /\ last'.port \notin InputPorts)
          => /\ UNCHANGED <<midiPorts, msgListener, stateListener>>
             /\ PortCalls(calls') = <<>>]_vars

\* C20 witness: the first device was just connected and is recorded with
\* its handler; the second was enumerated or connected before, was
\* disconnected last, and is not recorded.
C20_Witness ==
    /\ last.kind = "connected"
    /\ last.port = 1
    /\ last.heard
    /\ lastNotice[1]
    /\ midiPorts[1] = 1
    /\ msgListener[1]
    /\ ~lastNotice[2]
    /\ portHist[2] = "disabled"
    /\ midiPorts[2] = Undefined
    /\ ~msgListener[2]

\* C21: the step that takes the session from Idle to Running leaves the
\* master gain at 0.5, whatever volume messages were handled while Idle
\* (while Idle there is no master gain node for them to set), and while
\* Running the master gain changes only in a step that handles a
\* ControlChange with controller 7 on status 176: it is 0.5 until the first
\* of them.
C21_InitialMasterGain ==
    /\ [](Idle => ~masterGainNode.created /\ masterGainNode.gain = NoValue)
    /\ [][(Idle /\ Running')
          => /\ masterGainNode'.created
             /\ RatEq(masterGainNode'.gain, Rat(1, 2))]_vars
    /\ [][(Running /\ masterGainNode' # masterGainNode)
          => /\ msg' # NoMessage
             /\ msg'[1] = 176
             /\ msg'[2] = 7]_vars

\* C21 witness: a volume message was handled while Idle, the start action was
\* handled just now, and the master gain is 0.5.
C21_Witness ==
    /\ Running
    /\ last.kind = "click"
    /\ idleVolume
    /\ RatEq(masterGainNode.gain, Rat(1, 2))

====
